---------------------------- MODULE Spec2Model ----------------------------
(***************************************************************************)
(* IBM DASD support of coreos-installer (src/s390x/dasd.rs).               *)
(*                                                                         *)
(* prepare_dasd brings the device to a formatted, labelled state;          *)
(* image_copy_s390x plans the track layout from the GPT of the image       *)
(* (partition_ranges), applies it with fdasd (make_partitions) and streams *)
(* the partitions of the image to their tracks.                            *)
(*                                                                         *)
(* Bytes are modelled one by one: the byte of the image at offset i has    *)
(* the value i, a destination byte never written has the value Orig.       *)
(* u64 values are integers modulo Width; Width stands for 2^64, which the  *)
(* model checker's 32-bit integers cannot hold.                            *)
(***************************************************************************)
EXTENDS Integers, Sequences, FiniteSets, TLC

VARIABLES
    pc,                 \* position of the program
    result,             \* "none" while running, "ok", or the error returned
    status_unformatted, \* the sysfs status of the device holds "unformatted"
    label_invalid,      \* fdasd -p prints "disk label block is invalid"
    caller,             \* who called default_format
    attempt,            \* which try_format call of make_partitions is running
    child,              \* the fdasd child of try_format: "none", "running", "waited"
    config,             \* make_partitions: the config fed to fdasd
    log,                \* external tools run and settle waits, in order
    bytes_per_block,    \* get_sector_size(device)
    blocks_per_track,   \* get_sectors_per_track(device)
    gpt,                \* partition slots of the GPT in the image header
    source_len,         \* total length of the image behind the source stream
    ranges,             \* Vec<Range> returned by partition_ranges
    partitions,         \* Vec<String> returned by partition_ranges
    cursor,             \* image_copy_s390x: cursor
    idx,                \* image_copy_s390x: position of ranges.iter()
    n,                  \* copy_exactly_n: bytes still to copy
    source_pos,         \* offset in the image of the next byte source delivers
    buffered,           \* bytes held by the BufWriter
    dest,               \* bytes of the destination written by this copy
    dest_pos,           \* file offset of the destination
    dest_touched,       \* a seek or write was issued against the destination
    flush_tried         \* the BufWriter was flushed on the way out of the copy

vars == <<pc, result, status_unformatted, label_invalid, caller, attempt, child,
          config, log,
          bytes_per_block, blocks_per_track, gpt, source_len, ranges,
          partitions, cursor, idx, n, source_pos, buffered, dest, dest_pos,
          dest_touched, flush_tried>>

device_vars ==
    <<status_unformatted, label_invalid, caller, attempt, child, config, log>>
input_vars == <<bytes_per_block, blocks_per_track, gpt, source_len>>
plan_vars == <<ranges, partitions>>
copy_vars == <<cursor, idx, n, source_pos, buffered, dest, dest_pos, dest_touched, flush_tried>>

-----------------------------------------------------------------------------
(* Program constants *)

\* let mut cursor: u64 = 1024 * 1024
MiB == 1048576

\* let mut start_track: u64 = 2
FirstTrack == 2

\* if partitions.len() > 3
MaxPartitions == 3

\* let mut buf = [0u8; 1024 * 1024]
BufLen == 1048576

-----------------------------------------------------------------------------
(* Bounds of the model *)

\* u64 arithmetic is arithmetic modulo Width
Width == 16777216

\* slots of a partition table drawn for partition_ranges alone
PlanSlots == 3

\* block numbers drawn for partition_ranges alone: 0..PlanSpan
PlanSpan == 1

\* slots of a partition table drawn for the copy
CopySlots == 4

\* slots of a partition table drawn for the whole program
FlowSlots == 4

\* the image is at most MaxTail bytes longer than its first MiB
MaxTail == 5

\* BUFFER_SIZE, the capacity of the BufWriter (set outside this file)
BufferSize == 2

\* a read may deliver 1..MaxShortRead bytes instead of all that was asked for
MaxShortRead == 1

-----------------------------------------------------------------------------
(* u64 arithmetic: the wrapped value and whether the operation overflows.  *)
(* A build with overflow checks panics where one overflows, a build        *)
(* without them continues with the wrapped value.                          *)

U64 == 0 .. (Width - 1)

AddOvf(a, b) == a >= Width - b

U64Add(a, b) == IF AddOvf(a, b) THEN a - (Width - b) ELSE a + b

SubOvf(a, b) == a < b

U64Sub(a, b) == IF SubOvf(a, b) THEN Width - (b - a) ELSE a - b

MulOvf(a, b) == b # 0 /\ a > (Width - 1) \div b

RECURSIVE U64Mul(_, _)
U64Mul(a, b) ==
    IF b = 0 THEN 0
    ELSE LET h == U64Mul(a, b \div 2)
             d == U64Add(h, h)
         IN  IF b % 2 = 1 THEN U64Add(d, a) ELSE d

-----------------------------------------------------------------------------
(* partition_ranges *)

Range(in_offset, out_offset, length) ==
    [in_offset |-> in_offset, out_offset |-> out_offset, length |-> length]

\* format!("[{}, last, native]", start_track)
FormatLast(start_track) == "[" \o ToString(start_track) \o ", last, native]"

\* format!("[{}, {}, native]", start_track, end_track)
FormatTracks(start_track, end_track) ==
    "[" \o ToString(start_track) \o ", " \o ToString(end_track) \o ", native]"

\* gpt.iter().filter(|(_, pt)| pt.is_used()): the numbers of the used slots
RECURSIVE UsedFrom(_, _)
UsedFrom(table, i) ==
    IF i > Len(table) THEN <<>>
    ELSE (IF table[i].used THEN <<i>> ELSE <<>>) \o UsedFrom(table, i + 1)

entries(table) == UsedFrom(table, 1)

\* entries().last()
last_partition(table) == entries(table)[Len(entries(table))]

\* let blocks = pt.ending_lba - pt.starting_lba + 1
Blocks(pt) == U64Add(U64Sub(pt.ending_lba, pt.starting_lba), 1)

BlocksOvf(pt) ==
    \/ SubOvf(pt.ending_lba, pt.starting_lba)
    \/ AddOvf(U64Sub(pt.ending_lba, pt.starting_lba), 1)

\* mutant: the number of tracks is rounded down
EndTrackRoundedDown(start_track, blocks, bpt) ==
    U64Sub(U64Add(start_track, blocks \div bpt), 1)

\* start_track + (blocks + blocks_per_track - 1) / blocks_per_track - 1
EndTrack(start_track, blocks, bpt) ==
    U64Sub(U64Add(start_track, U64Sub(U64Add(blocks, bpt), 1) \div bpt), 1)

EndTrackOvf(start_track, blocks, bpt) ==
    \/ AddOvf(blocks, bpt)
    \/ SubOvf(U64Add(blocks, bpt), 1)
    \/ AddOvf(start_track, U64Sub(U64Add(blocks, bpt), 1) \div bpt)
    \/ SubOvf(U64Add(start_track, U64Sub(U64Add(blocks, bpt), 1) \div bpt), 1)

\* mutant: out_offset leaves out blocks_per_track
EntryRangeNoTrackSize(pt, start_track, bpb, bpt) ==
    Range(U64Mul(pt.starting_lba, bpb),
          U64Mul(start_track, bpb),
          U64Mul(Blocks(pt), bpb))

\* ranges.push(Range { ... })
EntryRange(pt, start_track, bpb, bpt) ==
    Range(U64Mul(pt.starting_lba, bpb),
          U64Mul(U64Mul(start_track, bpt), bpb),
          U64Mul(Blocks(pt), bpb))

EntryRangeOvf(pt, start_track, bpb, bpt) ==
    \/ MulOvf(pt.starting_lba, bpb)
    \/ MulOvf(start_track, bpt)
    \/ MulOvf(U64Mul(start_track, bpt), bpb)
    \/ MulOvf(Blocks(pt), bpb)

\* if i == last_partition { ... } else { ... }
EntryText(i, last, start_track, end_track) ==
    IF i = last THEN FormatLast(start_track)
    ELSE FormatTracks(start_track, end_track)

\* start_track = end_track + 1
NextTrack(end_track) == U64Add(end_track, 1)

\* for (i, pt) in entries() { ... }: the loop from the k-th used slot on
RECURSIVE PlanLoop(_, _, _, _, _)
PlanLoop(table, bpb, bpt, k, acc) ==
    IF k > Len(entries(table)) THEN acc
    ELSE LET i == entries(table)[k]
             pt == table[i]
             end_track == EndTrack(acc.start_track, Blocks(pt), bpt)
         IN  PlanLoop(table, bpb, bpt, k + 1,
                 [ranges |-> Append(acc.ranges,
                                 EntryRange(pt, acc.start_track, bpb, bpt)),
                  partitions |-> Append(acc.partitions,
                                 EntryText(i, last_partition(table),
                                           acc.start_track, end_track)),
                  tracks |-> Append(acc.tracks,
                                 [start_track |-> acc.start_track,
                                  end_track |-> end_track]),
                  start_track |-> NextTrack(end_track),
                  overflow |-> \/ acc.overflow
                               \/ BlocksOvf(pt)
                               \/ EndTrackOvf(acc.start_track, Blocks(pt), bpt)
                               \/ EntryRangeOvf(pt, acc.start_track, bpb, bpt)
                               \/ AddOvf(end_track, 1)])

Plan(table, bpb, bpt) ==
    PlanLoop(table, bpb, bpt, 1,
             [ranges |-> <<>>, partitions |-> <<>>, tracks |-> <<>>,
              start_track |-> FirstTrack, overflow |-> FALSE])

\* the permutations of 1..len
Perms(len) == Permutations(1 .. len)

\* mutant: the ranges are not sorted
NotSorted(rs) == {rs}

\* ranges.sort_unstable_by_key(|r| r.in_offset): every order of rs that is
\* ascending by in_offset (ranges of equal key may come out in any order)
SortUnstableByKey(rs) ==
    {[i \in 1 .. Len(rs) |-> rs[p[i]]] : p \in
        {q \in Perms(Len(rs)) :
            \A i \in 1 .. Len(rs) - 1 : rs[q[i]].in_offset <= rs[q[i + 1]].in_offset}}

-----------------------------------------------------------------------------
(* Inputs *)

Unused == [used |-> FALSE, starting_lba |-> 0, ending_lba |-> 0]

Used(starting_lba, ending_lba) ==
    [used |-> TRUE, starting_lba |-> starting_lba, ending_lba |-> ending_lba]

\* the tables of at most len slots drawn from slots
Tables(slots, len) == UNION {[1 .. k -> slots] : k \in 0 .. len}

\* block numbers of the tables drawn for partition_ranges alone
PlanLbas == 0 .. PlanSpan

\* entries at the upper end of the 64-bit block numbers: the last block, a
\* partition from the last block to block 0, one of all blocks but the last
PlanEdges == {Used(Width - 1, Width - 1), Used(Width - 1, 0), Used(0, Width - 2)}

\* slots of the tables drawn for partition_ranges alone: every pair of
\* starting and ending block (the ending one below the starting one as
\* well), and the entries at the upper end
PlanEntries ==
    {Unused} \cup {Used(s, e) : s \in PlanLbas, e \in PlanLbas} \cup PlanEdges

PlanGeometries == {<<1, 2>>, <<2, 1>>}

\* bytesPerBlock=512, blocksPerTrack=12, used partitions [34,99] and [100,199]
ScenarioTable == <<Used(34, 99), Used(100, 199)>>

\* the block of the image at byte MiB
FirstBlock(bpb) == MiB \div bpb

\* slots of the tables drawn for the copy: a partition at MiB, one right
\* after it, one that overlaps that one and leaves a block free after the
\* first, one whose ending_lba is starting_lba - 1, one below MiB
CopyEntries(bpb) ==
    LET b == FirstBlock(bpb)
    IN  {Unused, Used(b, b), Used(b + 1, b + 2), Used(b + 2, b + 3),
         Used(b + 1, b), Used(b - 1, b - 1)}

CopyGeometries == {<<1, 2>>}

\* slots of the tables drawn for the whole program: a partition at MiB, one
\* right after it, one whose ending_lba is starting_lba - 1
FlowEntries(bpb) ==
    LET b == FirstBlock(bpb)
    IN  {Unused, Used(b, b), Used(b + 1, b + 2), Used(b + 1, b)}

FlowGeometries == {<<1, 2>>}

SourceLens == {MiB + t : t \in 0 .. MaxTail}

\* lengths of the images drawn for the whole program: a stream that ends
\* with the header, one that ends a byte after it, a full one
FlowLens == {MiB, MiB + 1, MiB + MaxTail}

-----------------------------------------------------------------------------
(* Initial states *)

Idle ==
    /\ result = "none"
    /\ caller = "none"
    /\ attempt = 0
    /\ child = "none"
    /\ config = ""
    /\ ranges = <<>>
    /\ partitions = <<>>
    /\ cursor = 0
    /\ idx = 0
    /\ n = 0
    /\ source_pos = MiB
    /\ buffered = <<>>
    /\ dest = <<>>
    /\ dest_pos = 0
    /\ dest_touched = FALSE
    /\ flush_tried = FALSE

\* the whole program: prepare_dasd, then image_copy_s390x
Init ==
    /\ pc = "prepare_dasd"
    /\ status_unformatted \in BOOLEAN
    /\ label_invalid \in BOOLEAN
    /\ log = <<>>
    /\ bytes_per_block = 1
    /\ blocks_per_track = 1
    /\ gpt = <<>>
    /\ source_len = MiB
    /\ Idle

\* image_copy_s390x called after prepare_dasd found the device formatted and
\* its label valid
Prepared ==
    /\ pc = "partition_ranges"
    /\ status_unformatted = FALSE
    /\ label_invalid = FALSE
    /\ log = <<"lszdev", "fdasd -p", "image_copy_s390x">>
    /\ Idle

\* partition_ranges alone, on a drawn table and geometry
InitPlan ==
    /\ Prepared
    /\ source_len = MiB
    /\ \/ /\ \E g \in PlanGeometries :
                bytes_per_block = g[1] /\ blocks_per_track = g[2]
          /\ gpt \in Tables(PlanEntries, PlanSlots)
       \/ /\ bytes_per_block = 512
          /\ blocks_per_track = 12
          /\ gpt = ScenarioTable

\* image_copy_s390x on a drawn image
InitCopy ==
    /\ Prepared
    /\ source_len \in SourceLens
    /\ \E g \in CopyGeometries :
          /\ bytes_per_block = g[1]
          /\ blocks_per_track = g[2]
          /\ gpt \in Tables(CopyEntries(g[1]), CopySlots)

-----------------------------------------------------------------------------
(* prepare_dasd *)

Fail(error) ==
    /\ pc' = "failed"
    /\ result' = error

\* udev_settle() in the log: a settle wait that completed, or one that failed
Settle(outcome) ==
    IF outcome = "udev_settle failed" THEN "udev_settle failed" ELSE "udev_settle"

\* is_formatted(dasd)? fails: lszdev fails or the status cannot be read
IsFormattedFail ==
    /\ pc = "prepare_dasd"
    /\ log' = log \o <<"lszdev">>
    /\ Fail("lszdev failed")
    /\ UNCHANGED <<status_unformatted, label_invalid, caller, attempt, child,
                   config, input_vars, plan_vars, copy_vars>>

\* if is_formatted(dasd)? { return Ok(()) }
LowLevelFormatSkip ==
    /\ pc = "prepare_dasd"
    /\ ~status_unformatted
    /\ log' = log \o <<"lszdev">>
    /\ pc' = "is_invalid"
    /\ UNCHANGED <<result, status_unformatted, label_invalid, caller,
                   attempt, child, config, input_vars, plan_vars, copy_vars>>

\* mutant: dasdfmt runs whatever the status says
LowLevelFormatAlways ==
    /\ pc = "prepare_dasd"
    /\ \E outcome \in {"dasdfmt failed", "udev_settle failed", "ok"} :
          /\ log' = log \o (IF outcome = "dasdfmt failed"
                            THEN <<"lszdev", "dasdfmt">>
                            ELSE <<"lszdev", "dasdfmt", Settle(outcome)>>)
          /\ status_unformatted' = (outcome = "dasdfmt failed")
          /\ IF outcome = "dasdfmt failed"
             THEN UNCHANGED label_invalid
             ELSE label_invalid' \in BOOLEAN
          /\ IF outcome = "ok"
             THEN pc' = "is_invalid" /\ UNCHANGED result
             ELSE Fail(outcome)
    /\ UNCHANGED <<caller, attempt, child, config, input_vars, plan_vars,
                   copy_vars>>

\* runcmd!("dasdfmt", ...)?; udev_settle()?
LowLevelFormat ==
    /\ pc = "prepare_dasd"
    /\ status_unformatted
    /\ \E outcome \in {"dasdfmt failed", "udev_settle failed", "ok"} :
          /\ log' = log \o (IF outcome = "dasdfmt failed"
                            THEN <<"lszdev", "dasdfmt">>
                            ELSE <<"lszdev", "dasdfmt", Settle(outcome)>>)
          /\ status_unformatted' = (outcome = "dasdfmt failed")
          /\ IF outcome = "dasdfmt failed"
             THEN UNCHANGED label_invalid
             ELSE label_invalid' \in BOOLEAN
          /\ IF outcome = "ok"
             THEN pc' = "is_invalid" /\ UNCHANGED result
             ELSE Fail(outcome)
    /\ UNCHANGED <<caller, attempt, child, config, input_vars, plan_vars,
                   copy_vars>>

\* mutant: default_format runs whatever the check reports
IsInvalidAlwaysFormats ==
    /\ pc = "is_invalid"
    /\ log' = log \o <<"fdasd -p">>
    /\ \E outcome \in {"fdasd -p failed", "ok"} :
          CASE outcome = "ok" ->
                 pc' = "default_format" /\ caller' = "prepare_dasd"
                 /\ UNCHANGED result
            [] OTHER -> Fail(outcome) /\ UNCHANGED caller
    /\ UNCHANGED <<status_unformatted, label_invalid, attempt, child, config,
                   input_vars, plan_vars, copy_vars>>

\* if is_invalid(&config.device)? { default_format(&config.device)? }
IsInvalid ==
    /\ pc = "is_invalid"
    /\ log' = log \o <<"fdasd -p">>
    /\ \E outcome \in {"fdasd -p failed", "ok"} :
          CASE outcome = "ok" /\ label_invalid ->
                 pc' = "default_format" /\ caller' = "prepare_dasd"
                 /\ UNCHANGED result
            [] outcome = "ok" /\ ~label_invalid ->
                 pc' = "image_copy_s390x" /\ UNCHANGED <<result, caller>>
            [] OTHER -> Fail(outcome) /\ UNCHANGED caller
    /\ UNCHANGED <<status_unformatted, label_invalid, attempt, child, config,
                   input_vars, plan_vars, copy_vars>>

\* mutant: make_partitions returns Ok after default_format, without the retry
DefaultFormatNoRetry ==
    /\ pc = "default_format"
    /\ \E outcome \in {"auto-formatting failed", "udev_settle failed", "ok"} :
          /\ log' = log \o (IF outcome = "auto-formatting failed"
                            THEN <<"fdasd -a">>
                            ELSE <<"fdasd -a", Settle(outcome)>>)
          /\ label_invalid' = (outcome = "auto-formatting failed" /\ label_invalid)
          /\ CASE outcome # "ok" -> Fail(outcome) /\ UNCHANGED attempt
               [] outcome = "ok" /\ caller = "prepare_dasd" ->
                    pc' = "image_copy_s390x" /\ UNCHANGED <<result, attempt>>
               [] outcome = "ok" /\ caller = "make_partitions" ->
                    pc' = "copy" /\ UNCHANGED <<result, attempt>>
    /\ UNCHANGED <<status_unformatted, caller, child, config, input_vars,
                   plan_vars, copy_vars>>

\* runcmd!("fdasd", "-a", "-s", dasd).chain_err(...)?; udev_settle()?
DefaultFormat ==
    /\ pc = "default_format"
    /\ \E outcome \in {"auto-formatting failed", "udev_settle failed", "ok"} :
          /\ log' = log \o (IF outcome = "auto-formatting failed"
                            THEN <<"fdasd -a">>
                            ELSE <<"fdasd -a", Settle(outcome)>>)
          /\ label_invalid' = (outcome = "auto-formatting failed" /\ label_invalid)
          /\ CASE outcome # "ok" -> Fail(outcome) /\ UNCHANGED attempt
               [] outcome = "ok" /\ caller = "prepare_dasd" ->
                    pc' = "image_copy_s390x" /\ UNCHANGED <<result, attempt>>
               [] outcome = "ok" /\ caller = "make_partitions" ->
                    pc' = "try_format" /\ attempt' = 2 /\ UNCHANGED result
    /\ UNCHANGED <<status_unformatted, caller, child, config, input_vars,
                   plan_vars, copy_vars>>

-----------------------------------------------------------------------------
(* image_copy_s390x: partition_ranges *)

\* image_copy_s390x(first_mb, source, dest_file, dest_path, _saved)
ImageCopyS390x ==
    /\ pc = "image_copy_s390x"
    /\ \E g \in FlowGeometries :
          /\ bytes_per_block' = g[1]
          /\ blocks_per_track' = g[2]
          /\ gpt' \in Tables(FlowEntries(g[1]), FlowSlots)
    /\ source_len' \in FlowLens
    /\ log' = log \o <<"image_copy_s390x">>
    /\ pc' = "partition_ranges"
    /\ UNCHANGED <<result, status_unformatted, label_invalid, caller,
                   attempt, child, config, plan_vars, copy_vars>>

\* get_sector_size(device)? or get_sectors_per_track(device)? fails: the
\* ioctl fails or reports zero sectors per track
GeometryFail ==
    /\ pc = "partition_ranges"
    /\ Fail("getting disk geometry")
    /\ UNCHANGED <<device_vars, input_vars, plan_vars, copy_vars>>

\* GPT::read_from(...).chain_err(|| "reading GPT of source image")?
ReadGptFail ==
    /\ pc = "partition_ranges"
    /\ Fail("reading GPT of source image")
    /\ UNCHANGED <<device_vars, input_vars, plan_vars, copy_vars>>

\* .chain_err(|| "source image has no partitions")?
NoPartitions ==
    /\ pc = "partition_ranges"
    /\ entries(gpt) = <<>>
    /\ Fail("source image has no partitions")
    /\ UNCHANGED <<device_vars, input_vars, plan_vars, copy_vars>>

\* an overflowing operation panics in a build with overflow checks
PartitionRangesPanic ==
    /\ pc = "partition_ranges"
    /\ entries(gpt) # <<>>
    /\ Plan(gpt, bytes_per_block, blocks_per_track).overflow
    /\ pc' = "panicked"
    /\ result' = "panic"
    /\ UNCHANGED <<device_vars, input_vars, plan_vars, copy_vars>>

\* mutant: a table without used entries is planned like any other
PartitionRangesOfNone ==
    /\ pc = "partition_ranges"
    /\ LET plan == Plan(gpt, bytes_per_block, blocks_per_track)
       IN  /\ ranges' \in SortUnstableByKey(plan.ranges)
           /\ partitions' = plan.partitions
    /\ pc' = "make_partitions"
    /\ UNCHANGED <<result, device_vars, input_vars, copy_vars>>

\* Ok((ranges, partitions))
PartitionRanges ==
    /\ pc = "partition_ranges"
    /\ entries(gpt) # <<>>
    /\ LET plan == Plan(gpt, bytes_per_block, blocks_per_track)
       IN  /\ ranges' \in SortUnstableByKey(plan.ranges)
           /\ partitions' = plan.partitions
    /\ pc' = "make_partitions"
    /\ UNCHANGED <<result, device_vars, input_vars, copy_vars>>

-----------------------------------------------------------------------------
(* make_partitions *)

\* partitions.join("\n")
RECURSIVE Join(_)
Join(lines) ==
    IF Len(lines) = 0 THEN ""
    ELSE IF Len(lines) = 1 THEN lines[1]
    ELSE lines[1] \o "\n" \o Join(Tail(lines))

\* if partitions.len() > 3 { bail!(...) }
MakePartitionsTooMany ==
    /\ pc = "make_partitions"
    /\ Len(partitions) > MaxPartitions
    /\ Fail("Can't create partitions")
    /\ UNCHANGED <<device_vars, input_vars, plan_vars, copy_vars>>

\* mutant: the length of the descriptor list is not checked
MakePartitionsNoLimit ==
    /\ pc = "make_partitions"
    /\ config' = Join(partitions) \o "\n"
    /\ attempt' = 1
    /\ pc' = "try_format"
    /\ UNCHANGED <<result, status_unformatted, label_invalid, caller, child,
                   log, input_vars, plan_vars, copy_vars>>

\* let mut config = partitions.join("\n"); config.push('\n');
MakePartitions ==
    /\ pc = "make_partitions"
    /\ ~(Len(partitions) > MaxPartitions)
    /\ config' = Join(partitions) \o "\n"
    /\ attempt' = 1
    /\ pc' = "try_format"
    /\ UNCHANGED <<result, status_unformatted, label_invalid, caller, child,
                   log, input_vars, plan_vars, copy_vars>>

\* mutant: a failed try_format is retried at once, without default_format
TryFormatErrRetryDirect(error) ==
    IF attempt = 1
    THEN pc' = "try_format" /\ UNCHANGED <<result, caller>>
    ELSE Fail(error) /\ UNCHANGED caller

\* mutant: the error of the second try_format is dropped and the copy starts
TryFormatErrIgnored(error) ==
    IF attempt = 1
    THEN pc' = "default_format" /\ caller' = "make_partitions" /\ UNCHANGED result
    ELSE pc' = "copy" /\ UNCHANGED <<result, caller>>

\* try_format returned Err: the first call falls back to default_format,
\* the error of the second is returned
TryFormatErr(error) ==
    IF attempt = 1
    THEN pc' = "default_format" /\ caller' = "make_partitions" /\ UNCHANGED result
    ELSE Fail(error) /\ UNCHANGED caller

\* Command::new("fdasd")...spawn()
TryFormatSpawn ==
    /\ pc = "try_format"
    /\ child' = "running"
    /\ log' = log \o <<"fdasd --config">>
    /\ pc' = "try_format_write"
    /\ UNCHANGED <<result, status_unformatted, label_invalid, caller,
                   attempt, config, input_vars, plan_vars, copy_vars>>

\* .chain_err(|| "failed to execute fdasd")?
TryFormatSpawnFail ==
    /\ pc = "try_format"
    /\ TryFormatErr("failed to execute fdasd")
    /\ UNCHANGED <<status_unformatted, label_invalid, attempt, child, config,
                   log, input_vars, plan_vars, copy_vars>>

\* child.stdin...write_all(config.as_bytes())
TryFormatWrite ==
    /\ pc = "try_format_write"
    /\ pc' = "try_format_wait"
    /\ UNCHANGED <<result, device_vars, input_vars, plan_vars, copy_vars>>

\* .chain_err(|| "couldn't write fdasd stdin")?
TryFormatWriteFail ==
    /\ pc = "try_format_write"
    /\ TryFormatErr("couldn't write fdasd stdin")
    /\ UNCHANGED <<status_unformatted, label_invalid, attempt, child, config,
                   log, input_vars, plan_vars, copy_vars>>

\* mutant: try_format returns Ok without the settle wait
TryFormatWaitNoSettle ==
    /\ pc = "try_format_wait"
    /\ child' = "waited"
    /\ pc' = "copy"
    /\ UNCHANGED <<result, status_unformatted, label_invalid, caller,
                   attempt, config, log, input_vars, plan_vars, copy_vars>>

\* child.wait()? succeeds with exit status 0; udev_settle()?; Ok(())
TryFormatWait ==
    /\ pc = "try_format_wait"
    /\ child' = "waited"
    /\ log' = log \o <<"udev_settle">>
    /\ pc' = "copy"
    /\ UNCHANGED <<result, status_unformatted, label_invalid, caller,
                   attempt, config, input_vars, plan_vars, copy_vars>>

\* child.wait() fails, fdasd exits non-zero, or udev_settle()? fails
TryFormatWaitFail ==
    /\ pc = "try_format_wait"
    /\ \E outcome \in {"couldn't wait on fdasd", "couldn't format",
                       "udev_settle failed"} :
          /\ child' = IF outcome = "couldn't wait on fdasd" THEN child ELSE "waited"
          /\ log' = IF outcome = "udev_settle failed"
                    THEN log \o <<Settle(outcome)>> ELSE log
          /\ TryFormatErr(outcome)
    /\ UNCHANGED <<status_unformatted, label_invalid, attempt, config,
                   input_vars, plan_vars, copy_vars>>

-----------------------------------------------------------------------------
(* image_copy_s390x: the copy *)

Min(a, b) == IF a < b THEN a ELSE b

\* the bytes of the image at [from, from + len)
Image(from, len) == [j \in 1 .. len |-> from + j - 1]

\* the value of a destination byte this copy never wrote
Orig == -1

\* dest_file.write_all(bytes) at file offset pos
WriteAt(d, pos, bytes) ==
    [o \in DOMAIN d \cup (pos .. pos + Len(bytes) - 1) |->
        IF o \in pos .. pos + Len(bytes) - 1 THEN bytes[o - pos + 1] ELSE d[o]]

\* the byte of the destination at offset o
DestAt(o) == IF o \in DOMAIN dest THEN dest[o] ELSE Orig

\* source.read(&mut buf[..want]) with avail bytes left in the stream
ReadLens(want, avail) ==
    LET all == Min(Min(want, avail), BufLen)
    IN  {all} \cup {k \in 1 .. MaxShortRead : k < all}

\* mutant: the BufWriter is not dropped (leaked) on an error return
AbortLeaked(error) ==
    /\ Fail(error)
    /\ UNCHANGED <<buffered, dest, dest_pos, dest_touched, flush_tried>>

\* an error return drops the BufWriter: its drop writes what it holds and
\* ignores a failure, so the first k buffered bytes reach the destination
Abort(error) ==
    /\ Fail(error)
    /\ \E k \in 0 .. Len(buffered) :
          /\ dest' = WriteAt(dest, dest_pos, SubSeq(buffered, 1, k))
          /\ dest_pos' = dest_pos + k
          /\ buffered' = SubSeq(buffered, k + 1, Len(buffered))
    /\ dest_touched' = (dest_touched \/ Len(buffered) > 0)
    /\ flush_tried' = TRUE

\* let mut cursor: u64 = 1024 * 1024; let mut dest = BufWriter::with_capacity(...)
StartCopy ==
    /\ pc = "copy"
    /\ cursor' = MiB
    /\ idx' = 1
    /\ buffered' = <<>>
    /\ pc' = "for_range"
    /\ UNCHANGED <<result, device_vars, input_vars, plan_vars, n, source_pos,
                   dest, dest_pos, dest_touched, flush_tried>>

\* mutant: the check comes after the seek to the range's out_offset
BailAfterSeek ==
    /\ pc = "for_range"
    /\ idx <= Len(ranges)
    /\ ranges[idx].in_offset < cursor
    /\ Fail("found partition before current stream location")
    /\ dest' = WriteAt(dest, dest_pos, buffered)
    /\ buffered' = <<>>
    /\ dest_pos' = ranges[idx].out_offset
    /\ dest_touched' = TRUE
    /\ flush_tried' = TRUE
    /\ UNCHANGED <<device_vars, input_vars, plan_vars, cursor, idx, n, source_pos>>

\* if range.in_offset < cursor { bail!(...) }
Bail ==
    /\ pc = "for_range"
    /\ idx <= Len(ranges)
    /\ ranges[idx].in_offset < cursor
    /\ Abort("found partition before current stream location")
    /\ UNCHANGED <<device_vars, input_vars, plan_vars, cursor, idx, n, source_pos>>

\* if range.in_offset > cursor { copy_exactly_n(source, sink, ...) }
ForRange ==
    /\ pc = "for_range"
    /\ idx <= Len(ranges)
    /\ ~(ranges[idx].in_offset < cursor)
    /\ IF ranges[idx].in_offset > cursor
       THEN pc' = "sinking" /\ n' = ranges[idx].in_offset - cursor
       ELSE pc' = "seek" /\ UNCHANGED n
    /\ UNCHANGED <<result, device_vars, input_vars, plan_vars, cursor, idx,
                   source_pos, buffered, dest, dest_pos, dest_touched, flush_tried>>

\* copy_exactly_n(source, sink, ...): one read, dropped
SinkRead ==
    /\ pc = "sinking"
    /\ n > 0
    /\ source_pos < source_len
    /\ \E k \in ReadLens(n, source_len - source_pos) :
          /\ source_pos' = source_pos + k
          /\ n' = n - k
    /\ UNCHANGED <<pc, result, device_vars, input_vars, plan_vars, cursor, idx,
                   buffered, dest, dest_pos, dest_touched, flush_tried>>

\* cursor = range.in_offset
SinkDone ==
    /\ pc = "sinking"
    /\ n = 0
    /\ cursor' = ranges[idx].in_offset
    /\ pc' = "seek"
    /\ UNCHANGED <<result, device_vars, input_vars, plan_vars, idx, n,
                   source_pos, buffered, dest, dest_pos, dest_touched, flush_tried>>

\* the stream ends before n bytes were dropped
SinkShort ==
    /\ pc = "sinking"
    /\ n > 0
    /\ source_pos = source_len
    /\ Abort("sinking input data")
    /\ UNCHANGED <<device_vars, input_vars, plan_vars, cursor, idx, n, source_pos>>

\* a read of the source fails
SinkReadFail ==
    /\ pc = "sinking"
    /\ n > 0
    /\ Abort("sinking input data")
    /\ UNCHANGED <<device_vars, input_vars, plan_vars, cursor, idx, n, source_pos>>

\* mutant: the seek goes to the offset in the image, not on the device
SeekToInOffset ==
    /\ pc = "seek"
    /\ dest' = WriteAt(dest, dest_pos, buffered)
    /\ buffered' = <<>>
    /\ dest_pos' = ranges[idx].in_offset
    /\ dest_touched' = TRUE
    /\ n' = ranges[idx].length
    /\ pc' = "copying"
    /\ UNCHANGED <<result, device_vars, input_vars, plan_vars, cursor, idx,
                   source_pos, flush_tried>>

\* dest.seek(SeekFrom::Start(range.out_offset)): the BufWriter writes what
\* it holds, then seeks the file
SeekOutput ==
    /\ pc = "seek"
    /\ dest' = WriteAt(dest, dest_pos, buffered)
    /\ buffered' = <<>>
    /\ dest_pos' = ranges[idx].out_offset
    /\ dest_touched' = TRUE
    /\ n' = ranges[idx].length
    /\ pc' = "copying"
    /\ UNCHANGED <<result, device_vars, input_vars, plan_vars, cursor, idx,
                   source_pos, flush_tried>>

\* .chain_err(|| "seeking output")?: the write or the seek fails
SeekFail ==
    /\ pc = "seek"
    /\ Abort("seeking output")
    /\ UNCHANGED <<device_vars, input_vars, plan_vars, cursor, idx, n, source_pos>>

\* copy_exactly_n(source, &mut dest, range.length, &mut buf): one read and
\* the write_all of what it delivered to the BufWriter
CopyRead ==
    /\ pc = "copying"
    /\ n > 0
    /\ source_pos < source_len
    /\ \E k \in ReadLens(n, source_len - source_pos) :
          LET chunk == Image(source_pos, k)
              spill == Len(buffered) + k > BufferSize
              held == IF spill THEN <<>> ELSE buffered
              file == IF spill THEN WriteAt(dest, dest_pos, buffered) ELSE dest
              pos == IF spill THEN dest_pos + Len(buffered) ELSE dest_pos
          IN  /\ source_pos' = source_pos + k
              /\ n' = n - k
              /\ IF k >= BufferSize
                 THEN /\ dest' = WriteAt(file, pos, chunk)
                      /\ dest_pos' = pos + k
                      /\ buffered' = held
                 ELSE /\ dest' = file
                      /\ dest_pos' = pos
                      /\ buffered' = held \o chunk
    /\ UNCHANGED <<pc, result, device_vars, input_vars, plan_vars, cursor, idx,
                   dest_touched, flush_tried>>

\* mutant: cursor is not advanced past the range
CopyDoneNoAdvance ==
    /\ pc = "copying"
    /\ n = 0
    /\ idx' = idx + 1
    /\ pc' = "for_range"
    /\ UNCHANGED <<result, device_vars, input_vars, plan_vars, cursor, n,
                   source_pos, buffered, dest, dest_pos, dest_touched,
                   flush_tried>>

\* cursor += range.length
CopyDone ==
    /\ pc = "copying"
    /\ n = 0
    /\ cursor' = cursor + ranges[idx].length
    /\ idx' = idx + 1
    /\ pc' = "for_range"
    /\ UNCHANGED <<result, device_vars, input_vars, plan_vars, n, source_pos,
                   buffered, dest, dest_pos, dest_touched, flush_tried>>

\* mutant: the error of copy_exactly_n is dropped and the loop goes on
CopyShortIgnored ==
    /\ pc = "copying"
    /\ n > 0
    /\ source_pos = source_len
    /\ cursor' = cursor + ranges[idx].length
    /\ idx' = idx + 1
    /\ pc' = "for_range"
    /\ UNCHANGED <<result, device_vars, input_vars, plan_vars, n, source_pos,
                   buffered, dest, dest_pos, dest_touched, flush_tried>>

\* the stream ends before range.length bytes were copied
CopyShort ==
    /\ pc = "copying"
    /\ n > 0
    /\ source_pos = source_len
    /\ Abort("copying partition")
    /\ UNCHANGED <<device_vars, input_vars, plan_vars, cursor, idx, n, source_pos>>

\* a read of the source or a write to the destination fails
CopyIoFail ==
    /\ pc = "copying"
    /\ n > 0
    /\ Abort("copying partition")
    /\ UNCHANGED <<device_vars, input_vars, plan_vars, cursor, idx, n, source_pos>>

\* mutant: the remainder of the stream is not read before the flush
LoopEndNoDrain ==
    /\ pc = "for_range"
    /\ idx > Len(ranges)
    /\ pc' = "flush"
    /\ UNCHANGED <<result, device_vars, input_vars, plan_vars, copy_vars>>

\* the for loop ends
LoopEnd ==
    /\ pc = "for_range"
    /\ idx > Len(ranges)
    /\ pc' = "close_out"
    /\ UNCHANGED <<result, device_vars, input_vars, plan_vars, copy_vars>>

\* copy(source, sink): reads to the end of the stream
CloseOut ==
    /\ pc = "close_out"
    /\ source_pos' = source_len
    /\ pc' = "flush"
    /\ UNCHANGED <<result, device_vars, input_vars, plan_vars, cursor, idx, n,
                   buffered, dest, dest_pos, dest_touched, flush_tried>>

\* .chain_err(|| "reading remainder of stream")?
CloseOutFail ==
    /\ pc = "close_out"
    /\ source_pos' \in source_pos .. source_len
    /\ Abort("reading remainder of stream")
    /\ UNCHANGED <<device_vars, input_vars, plan_vars, cursor, idx, n>>

\* dest.flush(); Ok(())
Flush ==
    /\ pc = "flush"
    /\ dest' = WriteAt(dest, dest_pos, buffered)
    /\ dest_pos' = dest_pos + Len(buffered)
    /\ buffered' = <<>>
    /\ dest_touched' = TRUE
    /\ flush_tried' = TRUE
    /\ pc' = "done"
    /\ result' = "ok"
    /\ UNCHANGED <<device_vars, input_vars, plan_vars, cursor, idx, n, source_pos>>

\* .chain_err(|| "flushing data to disk")?
FlushFail ==
    /\ pc = "flush"
    /\ Abort("flushing data to disk")
    /\ UNCHANGED <<device_vars, input_vars, plan_vars, cursor, idx, n, source_pos>>

-----------------------------------------------------------------------------
(* Specifications *)

PlanSteps ==
    \/ NoPartitions
    \/ PartitionRangesPanic
    \/ PartitionRanges

CopySteps ==
    \/ StartCopy
    \/ Bail
    \/ ForRange
    \/ SinkRead
    \/ SinkDone
    \/ SinkShort
    \/ SinkReadFail
    \/ SeekOutput
    \/ SeekFail
    \/ CopyRead
    \/ CopyDone
    \/ CopyShort
    \/ CopyIoFail
    \/ LoopEnd
    \/ CloseOut
    \/ CloseOutFail
    \/ Flush
    \/ FlushFail

\* the whole program, every tool free to fail
Next ==
    \/ IsFormattedFail
    \/ LowLevelFormatSkip
    \/ LowLevelFormat
    \/ IsInvalid
    \/ DefaultFormat
    \/ ImageCopyS390x
    \/ GeometryFail
    \/ ReadGptFail
    \/ PlanSteps
    \/ MakePartitionsTooMany
    \/ MakePartitions
    \/ TryFormatSpawn
    \/ TryFormatSpawnFail
    \/ TryFormatWrite
    \/ TryFormatWriteFail
    \/ TryFormatWait
    \/ TryFormatWaitFail
    \/ CopySteps

Spec == Init /\ [][Next]_vars

\* partition_ranges alone
NextPlan == PlanSteps

SpecPlan == InitPlan /\ [][NextPlan]_vars

\* image_copy_s390x on a prepared device that fdasd partitions at the first
\* attempt
NextCopy ==
    \/ PlanSteps
    \/ MakePartitionsTooMany
    \/ MakePartitions
    \/ TryFormatSpawn
    \/ TryFormatWrite
    \/ TryFormatWait
    \/ CopySteps

SpecCopy == InitCopy /\ [][NextCopy]_vars

-----------------------------------------------------------------------------
(* Properties of partition_ranges *)

\* partition_ranges returned Ok((ranges, partitions))
Planned == pc = "make_partitions"

\* the used slots of the table, in the order gpt.iter() visits them
UsedSlots == [k \in 1 .. Len(entries(gpt)) |-> gpt[entries(gpt)[k]]]

\* bytes of a track
TrackBytes == blocks_per_track * bytes_per_block

\* the used slots are visited in ascending starting-block order
AscendingTable ==
    \A j, k \in 1 .. Len(UsedSlots) :
        j < k => UsedSlots[j].starting_lba < UsedSlots[k].starting_lba

\* no u64 operation of partition_ranges wraps around on this table
NoWrapAround == ~Plan(gpt, bytes_per_block, blocks_per_track).overflow

Ceil(a, b) == IF a % b = 0 THEN a \div b ELSE a \div b + 1

\* the track of a byte offset of the destination
TrackOf(offset) == offset \div TrackBytes

\* the descriptor text of the i-th range with the tracks the range covers
TextOfRange(i) ==
    LET startTrack == TrackOf(ranges[i].out_offset)
        endTrack == startTrack + Ceil(ranges[i].length, TrackBytes) - 1
    IN  IF i = Len(ranges)
        THEN "[" \o ToString(startTrack) \o ", last, native]"
        ELSE "[" \o ToString(startTrack) \o ", " \o ToString(endTrack)
                 \o ", native]"

C1_Layout ==
    /\ Len(ranges) = Len(UsedSlots)
    /\ Len(partitions) = Len(ranges)
    /\ \A i, j \in 1 .. Len(ranges) :
          i < j => ranges[i].out_offset < ranges[j].out_offset
    /\ \A i \in 1 .. Len(ranges) : ranges[i].out_offset % TrackBytes = 0
    /\ \A i \in 1 .. Len(ranges) : partitions[i] = TextOfRange(i)

\* C1 as stated: for any table with 1 to 3 used partitions visited in
\* ascending starting-block order and any positive geometry, the ranges have
\* strictly increasing, track-aligned outOffset, each descriptor carries
\* endTrack = startTrack + ceil(length / (blocksPerTrack*bytesPerBlock)) - 1,
\* and only the descriptor of the last partition carries "last".
C1_AsStated ==
    (Planned /\ Len(UsedSlots) \in 1 .. 3 /\ AscendingTable) => C1_Layout

\* the layout of C1 on the tables partition_ranges plans without a u64
\* wrap-around (so startingBlock <= endingBlock in every used entry)
C1_PlanLayout ==
    (Planned /\ Len(UsedSlots) \in 1 .. 3 /\ AscendingTable /\ NoWrapAround)
        => C1_Layout

\* three partitions in ascending order, planned without wrap-around
C1_Witness ==
    /\ Planned
    /\ AscendingTable
    /\ NoWrapAround
    /\ Len(ranges) = 3

-----------------------------------------------------------------------------
(* The reference planner, in unbounded arithmetic *)

RefBlocks(pt) == pt.ending_lba - pt.starting_lba + 1

RefTracks(pt) == Ceil(RefBlocks(pt), blocks_per_track)

\* the first used partition starts at track 2, every later one at the track
\* after the end track of the one before
RECURSIVE RefStartTrack(_)
RefStartTrack(k) ==
    IF k = 1 THEN 2
    ELSE RefStartTrack(k - 1) + RefTracks(UsedSlots[k - 1])

RefEndTrack(k) == RefStartTrack(k) + RefTracks(UsedSlots[k]) - 1

RefRange(k) ==
    [in_offset |-> UsedSlots[k].starting_lba * bytes_per_block,
     out_offset |-> RefStartTrack(k) * blocks_per_track * bytes_per_block,
     length |-> RefBlocks(UsedSlots[k]) * bytes_per_block]

RefText(k) ==
    IF k = Len(UsedSlots)
    THEN "[" \o ToString(RefStartTrack(k)) \o ", last, native]"
    ELSE "[" \o ToString(RefStartTrack(k)) \o ", "
             \o ToString(RefEndTrack(k)) \o ", native]"

\* rs holds the ranges of the reference planner, ascending by in_offset
IsSortedRef(rs) ==
    /\ Len(rs) = Len(UsedSlots)
    /\ \E p \in Perms(Len(rs)) : \A k \in 1 .. Len(rs) : rs[p[k]] = RefRange(k)
    /\ \A i \in 1 .. Len(rs) - 1 : rs[i].in_offset <= rs[i + 1].in_offset

C2_Reference ==
    /\ IsSortedRef(ranges)
    /\ partitions = [k \in 1 .. Len(UsedSlots) |-> RefText(k)]
    /\ (gpt = ScenarioTable /\ bytes_per_block = 512 /\ blocks_per_track = 12)
          => partitions = <<"[2, 7, native]", "[8, last, native]">>

\* C2 as stated: partition_ranges equals the reference planner on every
\* table: first partition at track 2, each later one at the track after the
\* previous end track, ceil(blocks / blocksPerTrack) tracks each with
\* blocks = endingBlock - startingBlock + 1, range {startingBlock*bytesPerBlock,
\* startTrack*blocksPerTrack*bytesPerBlock, blocks*bytesPerBlock}; the scenario
\* 512/12 with [34,99], [100,199] gives "[2, 7, native]", "[8, last, native]".
C2_AsStated == Planned => C2_Reference

\* partition_ranges equals the reference planner on the tables it plans
\* without a u64 wrap-around, the scenario among them
C2_EqualsReference == (Planned /\ NoWrapAround) => C2_Reference

\* the scenario, planned
C2_Witness ==
    /\ Planned
    /\ gpt = ScenarioTable
    /\ bytes_per_block = 512
    /\ blocks_per_track = 12
    /\ NoWrapAround
    /\ Len(ranges) = 2

-----------------------------------------------------------------------------
(* Order and overlap of the ranges *)

SortedByInOffset ==
    \A i, j \in 1 .. Len(ranges) :
        i < j => ranges[i].in_offset <= ranges[j].in_offset

\* a byte of the image lies in both ranges
InputOverlap(r1, r2) ==
    /\ r1.in_offset < r2.in_offset + r2.length
    /\ r2.in_offset < r1.in_offset + r1.length
    /\ r1.length > 0
    /\ r2.length > 0

NoInputOverlap ==
    \A i, j \in 1 .. Len(ranges) : i # j => ~InputOverlap(ranges[i], ranges[j])

\* the used entries are pairwise disjoint block intervals
DisjointEntries ==
    \A j, k \in 1 .. Len(UsedSlots) :
        j # k => \/ UsedSlots[j].ending_lba < UsedSlots[k].starting_lba
                 \/ UsedSlots[k].ending_lba < UsedSlots[j].starting_lba

\* C3 as stated: every range list partition_ranges returns is sorted
\* ascending by inOffset and pairwise non-overlapping in input space.
C3_AsStated == Planned => (SortedByInOffset /\ NoInputOverlap)

\* C3 (amended): every range list partition_ranges returns is sorted
\* ascending by inOffset; partition_ranges rejects no overlap, and its ranges
\* are pairwise non-overlapping in input space when the used entries are
\* pairwise disjoint block intervals with startingBlock <= endingBlock whose
\* byte offsets and lengths fit in 64 bits.
C3_SortedAndDisjoint ==
    Planned => /\ SortedByInOffset
               /\ (DisjointEntries /\ NoWrapAround) => NoInputOverlap

\* disjoint entries visited out of order: the sort has reordered the ranges
C3_Witness ==
    /\ Planned
    /\ DisjointEntries
    /\ NoWrapAround
    /\ Len(ranges) = 3
    /\ UsedSlots[1].starting_lba > UsedSlots[2].starting_lba
    /\ ranges[1].in_offset < ranges[2].in_offset

-----------------------------------------------------------------------------
(* Descriptors and ranges *)

PlanTracks == Plan(gpt, bytes_per_block, blocks_per_track).tracks

\* the descriptor text reads "[s, ..., native]"
StartsAt(text, s) ==
    \/ text = FormatLast(s)
    \/ \E k \in 1 .. Len(PlanTracks) : text = FormatTracks(s, PlanTracks[k].end_track)

StartTracks == {PlanTracks[k].start_track : k \in 1 .. Len(PlanTracks)}

\* the in_offset of the k-th used slot visited
VisitedInOffset(k) == U64Mul(UsedSlots[k].starting_lba, bytes_per_block)

\* C4 as stated: one descriptor per range, and for every index i the start
\* track of the i-th descriptor times blocksPerTrack*bytesPerBlock is the
\* outOffset of the i-th range, for every order of the used entries (stated
\* here for the tables of pairwise disjoint entries without wrap-around, where
\* the sort has one outcome).
C4_AsStated ==
    (Planned /\ DisjointEntries /\ NoWrapAround) =>
        /\ Len(partitions) = Len(ranges)
        /\ \A i \in 1 .. Len(ranges) : \E s \in StartTracks :
              /\ StartsAt(partitions[i], s)
              /\ s * TrackBytes = ranges[i].out_offset

\* the start tracks s, among those of tracks, for which the descriptor text
\* reads "[s, ..., native]"
DescriptorTracks(tracks, text) ==
    {tracks[j].start_track : j \in
        {j \in 1 .. Len(tracks) :
            \/ text = FormatLast(tracks[j].start_track)
            \/ \E k \in 1 .. Len(tracks) :
                  text = FormatTracks(tracks[j].start_track, tracks[k].end_track)}}

\* the k-th descriptor belongs to the i-th range
CorrespondsIn(tracks, k, i) ==
    /\ ranges[i].in_offset = VisitedInOffset(k)
    /\ \E s \in DescriptorTracks(tracks, partitions[k]) :
          U64Mul(U64Mul(s, blocks_per_track), bytes_per_block)
             = ranges[i].out_offset

Corresponds(k, i) == CorrespondsIn(PlanTracks, k, i)

\* the used entries are visited in ascending order of their in_offset
AscendingInOffsets ==
    \A j, k \in 1 .. Len(UsedSlots) :
        j < k => VisitedInOffset(j) < VisitedInOffset(k)

\* C4 (amended): there is one descriptor per range; the descriptors stay in
\* the order the used entries are visited while the ranges are sorted by
\* inOffset, so the k-th descriptor belongs to the range of the k-th visited
\* entry (start track times blocksPerTrack*bytesPerBlock, in u64 arithmetic,
\* is that range's outOffset), which is the k-th range when the entries are
\* visited in ascending inOffset order and another one otherwise.
C4_DescriptorsMatch ==
    Planned =>
        LET tracks == PlanTracks
        IN  /\ Len(partitions) = Len(ranges)
            /\ \E p \in Perms(Len(ranges)) :
                  \A k \in 1 .. Len(ranges) : CorrespondsIn(tracks, k, p[k])
            /\ AscendingInOffsets =>
                  \A k \in 1 .. Len(ranges) : CorrespondsIn(tracks, k, k)

\* entries visited out of order: the first descriptor belongs to the second
\* range
C4_Witness ==
    /\ Planned
    /\ Len(ranges) = 2
    /\ NoWrapAround
    /\ ~AscendingInOffsets
    /\ Corresponds(1, 2)
    /\ ~Corresponds(1, 1)

-----------------------------------------------------------------------------
(* Properties of the copy *)

\* the destination offsets of the i-th range
OutBytes(i) ==
    ranges[i].out_offset .. ranges[i].out_offset + ranges[i].length - 1

\* the destination holds the image bytes of the i-th range
Copied(i) ==
    \A k \in 0 .. ranges[i].length - 1 :
        DestAt(ranges[i].out_offset + k) = ranges[i].in_offset + k

\* every byte this copy wrote lies in one of the ranges before the i-th
WrittenBefore(i) ==
    \A o \in DOMAIN dest : \E j \in 1 .. i - 1 : o \in OutBytes(j)

\* C5: when image_copy_s390x succeeds, for every range the destination bytes
\* at [outOffset, outOffset+length) equal the image bytes at
\* [inOffset, inOffset+length), the source is at end of stream, and every
\* destination byte outside the written ranges has the value it had before.
C5_CopyGuarantee ==
    result = "ok" =>
        /\ \A i \in 1 .. Len(ranges) : Copied(i)
        /\ source_pos = source_len
        /\ buffered = <<>>
        /\ WrittenBefore(Len(ranges) + 1)

\* a successful copy of two ranges with a gap between them and a tail after
\* the last
C5_Witness ==
    /\ result = "ok"
    /\ Len(ranges) = 2
    /\ ranges[1].length > 0
    /\ ranges[2].in_offset > ranges[1].in_offset + ranges[1].length
    /\ source_len > ranges[2].in_offset + ranges[2].length

BailError == "found partition before current stream location"

\* C6 as stated: a range whose inOffset is less than the cursor aborts the
\* copy with the plan-consistency error before the destination is touched:
\* no seek and no write has been issued against it, at any position of the
\* violating range in the plan.
C6_AsStated ==
    result = BailError => (~dest_touched /\ dest = <<>>)

\* C6 (amended): a range whose inOffset is less than the cursor aborts the
\* copy with the plan-consistency error before the source is read or the
\* destination is seeked for that range or a later one. The destination is
\* untouched when the violating range is the first of the plan; otherwise
\* the ranges before it have been seeked to and written, what the BufWriter
\* still holds of them is written as the error is returned, and nothing
\* outside those ranges is written.
C6_BailBeforeRange ==
    result = BailError =>
        /\ pc = "failed"
        /\ idx \in 1 .. Len(ranges)
        /\ ranges[idx].in_offset < cursor
        /\ source_pos = cursor
        /\ idx = 1 => (~dest_touched /\ dest = <<>>)
        /\ WrittenBefore(idx)
        /\ \A o \in DOMAIN dest : \E j \in 1 .. idx - 1 :
              /\ o \in OutBytes(j)
              /\ dest[o] = ranges[j].in_offset + (o - ranges[j].out_offset)

\* the second range starts inside the first, which has been written
C6_Witness ==
    /\ result = BailError
    /\ idx = 2
    /\ dest_touched
    /\ Copied(1)
    /\ ranges[1].length > 0

\* the stream has ended before the bytes to drop ahead of a range, or the
\* bytes of the range, were delivered
Truncated ==
    /\ pc \in {"sinking", "copying"}
    /\ n > 0
    /\ source_pos = source_len

\* every range lies within the stream
WithinStream ==
    \A i \in 1 .. Len(ranges) :
        ranges[i].in_offset + ranges[i].length <= source_len

\* C7: if the source ends before the bytes to discard ahead of a range or
\* the full length of a range have been delivered, image_copy_s390x returns
\* an error: it never returns success, processes no later range and does not
\* run the final drain and flush.
C7_TruncatedFails ==
    /\ [][Truncated =>
            /\ pc' = "failed"
            /\ result' \in {"sinking input data", "copying partition"}
            /\ idx' = idx
            /\ cursor' = cursor
            /\ source_pos' = source_pos]_vars
    /\ [](result = "ok" => WithinStream)

\* the stream ended inside the first of two ranges
C7_Witness ==
    /\ pc = "failed"
    /\ result = "copying partition"
    /\ n > 0
    /\ source_pos = source_len
    /\ idx = 1
    /\ Len(ranges) = 2

-----------------------------------------------------------------------------
(* Properties of the whole program *)

\* image_copy_s390x has been entered
InImageCopy == \E i \in DOMAIN log : log[i] = "image_copy_s390x"

\* no tool has run since image_copy_s390x was entered, the source has not
\* been read and the destination has not been touched
NothingDone ==
    /\ log[Len(log)] = "image_copy_s390x"
    /\ child = "none"
    /\ config = ""
    /\ source_pos = MiB
    /\ ~dest_touched
    /\ dest = <<>>
    /\ buffered = <<>>

\* C8: with four or more descriptors make_partitions fails with the
\* partition-limit error before any external tool is invoked: neither
\* try_format nor default_format runs and image_copy_s390x writes no byte to
\* the destination.
C8_LimitBeforeTools ==
    Len(partitions) > MaxPartitions =>
        /\ pc \in {"make_partitions", "failed"}
        /\ pc = "failed" => result = "Can't create partitions"
        /\ NothingDone

\* four descriptors, rejected
C8_Witness ==
    /\ pc = "failed"
    /\ result = "Can't create partitions"
    /\ Len(partitions) = 4
    /\ InImageCopy

\* the table was read: neither the geometry nor the GPT read failed
TableRead ==
    /\ InImageCopy
    /\ result \notin {"getting disk geometry", "reading GPT of source image"}

\* C9: when the partition table has no used entry, partition_ranges fails
\* with the no-partitions error and produces no ranges and no descriptors;
\* image_copy_s390x returns that error without invoking the partition tool,
\* reading the source or writing the destination.
C9_NoPartitions ==
    (TableRead /\ entries(gpt) = <<>>) =>
        /\ pc \in {"partition_ranges", "failed"}
        /\ pc = "failed" => result = "source image has no partitions"
        /\ ranges = <<>>
        /\ partitions = <<>>
        /\ NothingDone

\* a table of unused slots only, rejected
C9_Witness ==
    /\ pc = "failed"
    /\ result = "source image has no partitions"
    /\ Len(gpt) > 1
    /\ entries(gpt) = <<>>

\* the number of dasdfmt runs in a log
Dasdfmts(l) == Cardinality({i \in DOMAIN l : l[i] = "dasdfmt"})

\* C10: low_level_format on a device whose status reports formatted runs
\* dasdfmt zero times and returns success; dasdfmt runs, exactly once, only
\* when the live status query reports unformatted.
C10_FormatOnlyUnformatted ==
    [][(pc = "prepare_dasd" /\ result' # "lszdev failed") =>
          /\ ~status_unformatted =>
                /\ Dasdfmts(log') = Dasdfmts(log)
                /\ pc' = "is_invalid"
                /\ result' = result
          /\ status_unformatted => Dasdfmts(log') = Dasdfmts(log) + 1]_vars

\* the device reported formatted: low_level_format returned Ok after the
\* status query alone
C10_Witness ==
    /\ pc = "is_invalid"
    /\ log = <<"lszdev">>
    /\ ~status_unformatted

-----------------------------------------------------------------------------
(* Properties of the formatting steps *)

\* the positions inside try_format
TryPcs == {"try_format", "try_format_write", "try_format_wait"}

\* the tools run since image_copy_s390x was entered
SinceEntry ==
    LET m == CHOOSE i \in DOMAIN log : log[i] = "image_copy_s390x"
    IN  SubSeq(log, m + 1, Len(log))

\* the number of runs of tool in a log
Runs(tool, l) == Cardinality({i \in DOMAIN l : l[i] = tool})

\* one step of make_partitions follows the retry scheme
RetryStep ==
    /\ (pc = "make_partitions" /\ pc' # pc) =>
          \/ pc' = "try_format" /\ attempt' = 1
          \/ pc' = "failed" /\ Len(partitions) > MaxPartitions
    /\ (pc' = "default_format" /\ pc # pc' /\ caller' = "make_partitions") =>
          (pc \in TryPcs /\ attempt = 1)
    /\ (pc \in TryPcs /\ attempt = 1 /\ pc' \notin TryPcs) =>
          \/ pc' = "copy" /\ pc = "try_format_wait"
          \/ pc' = "default_format" /\ caller' = "make_partitions"
    /\ (pc = "default_format" /\ caller = "make_partitions" /\ pc' # pc) =>
          \/ pc' = "try_format" /\ attempt = 1 /\ attempt' = 2
          \/ /\ pc' = "failed"
             /\ result' \in {"auto-formatting failed", "udev_settle failed"}
    /\ (pc \in TryPcs /\ attempt = 2 /\ pc' \notin TryPcs) =>
          \/ pc' = "copy" /\ pc = "try_format_wait"
          \/ pc' = "failed" /\ result' # "ok"
    /\ (pc' = "copy" /\ pc # pc') => pc = "try_format_wait"
    /\ attempt >= 1 => (config' = config /\ attempt' >= attempt)

\* C11: in one call of make_partitions with at most 3 descriptors try_format
\* is attempted first; default_format runs only after the first try_format
\* failed, at most once; try_format is retried once after a successful
\* default_format and never more; the call fails if default_format or the
\* retry fails and succeeds exactly when the first try_format or the retry
\* succeeds; both attempts are fed the same config.
C11_RetryOnce ==
    /\ [][RetryStep]_vars
    /\ [](attempt \in 0 .. 2)
    /\ [](attempt >= 1 =>
            /\ Len(partitions) <= MaxPartitions
            /\ config = Join(partitions) \o "\n"
            /\ Runs("fdasd -a", SinceEntry) <= 1
            /\ Runs("fdasd --config", SinceEntry) <= attempt)

\* make_partitions succeeded at the retry, after default_format
C11_Witness ==
    /\ pc = "copy"
    /\ attempt = 2
    /\ Runs("fdasd -a", SinceEntry) = 1
    /\ Runs("fdasd --config", SinceEntry) = 2

\* the tools that format: low-level format, auto-format, config format
FormatTools == {"dasdfmt", "fdasd -a", "fdasd --config"}

\* the i-th and the j-th entry of the log are runs of the same formatting tool
SameFormatTwice(i, j) ==
    /\ i < j
    /\ log[i] \in FormatTools
    /\ log[j] = log[i]

\* C12 as stated: over a run of prepare_dasd followed by image_copy_s390x no
\* formatting step is attempted twice without an intervening corrective
\* step; in particular default_format does not run a second time unless
\* such a step lies between the two runs (any other formatting step counts
\* as one here).
C12_AsStated ==
    \A i, j \in DOMAIN log :
        SameFormatTwice(i, j) =>
            \E k \in i + 1 .. j - 1 : log[k] \in FormatTools \ {log[i]}

\* C12 (amended): dasdfmt runs at most once; try_format runs at most twice,
\* and between two runs of it lies a default_format that succeeded;
\* default_format runs at most once in prepare_dasd and at most once in
\* make_partitions, and nothing but the failed try_format, which may not
\* even have started fdasd, lies between these two runs.
C12_FormatSteps ==
    /\ Runs("dasdfmt", log) <= 1
    /\ Runs("fdasd --config", log) <= 2
    /\ Runs("fdasd -a", log) <= 2
    /\ \A i, j \in DOMAIN log :
          (SameFormatTwice(i, j) /\ log[i] = "fdasd --config") =>
              \E k \in i + 1 .. j - 2 :
                  log[k] = "fdasd -a" /\ log[k + 1] = "udev_settle"
    /\ \A i, j \in DOMAIN log :
          (SameFormatTwice(i, j) /\ log[i] = "fdasd -a") =>
              \E k \in i + 1 .. j - 1 : log[k] = "image_copy_s390x"

\* default_format ran in prepare_dasd and again in make_partitions, whose
\* first try_format failed before fdasd was started
C12_Witness ==
    \E i \in DOMAIN log :
        /\ i + 3 \in DOMAIN log
        /\ log[i] = "fdasd -a"
        /\ log[i + 1] = "udev_settle"
        /\ log[i + 2] = "image_copy_s390x"
        /\ log[i + 3] = "fdasd -a"

\* the operations issued against the device that the log records
DeviceOps == {"lszdev", "dasdfmt", "fdasd -p", "fdasd -a", "fdasd --config"}

\* the copy has read the source or touched the destination
CopyBegun == source_pos # MiB \/ dest_touched \/ dest # <<>>

\* C13 as stated: after every run of a tool that changes the device tree
\* (dasdfmt, fdasd -a, fdasd --config) the settle wait completes before any
\* further operation is issued against the device, on every path, the one
\* where fdasd --config exits non-zero and default_format follows included.
C13_AsStated ==
    /\ \A i, j \in DOMAIN log :
          (i < j /\ log[i] \in FormatTools /\ log[j] \in DeviceOps) =>
              \E k \in i + 1 .. j - 1 : log[k] = "udev_settle"
    /\ CopyBegun => log[Len(log)] = "udev_settle"

\* C13 (amended): after dasdfmt and after fdasd -a the settle wait is the
\* next step, and nothing further is issued unless it completed. After
\* fdasd --config the settle wait runs only when fdasd exited with status 0:
\* when the first try_format fails after it started fdasd (its stdin cannot
\* be written, it cannot be waited on, it exits non-zero, or the settle
\* fails), make_partitions runs fdasd -a with no completed settle wait in
\* between. The copy begins only after a completed settle wait.
C13_SettleAfterSuccess ==
    /\ \A i \in DOMAIN log :
          (log[i] \in {"dasdfmt", "fdasd -a"} /\ i < Len(log)) =>
              /\ log[i + 1] \in {"udev_settle", "udev_settle failed"}
              /\ log[i + 1] = "udev_settle failed" => i + 1 = Len(log)
    /\ \A i \in DOMAIN log :
          (log[i] = "fdasd --config" /\ i < Len(log)) =>
              \/ log[i + 1] = "udev_settle"
              \/ /\ log[i + 1] = "fdasd -a"
                 /\ Runs("fdasd --config", SubSeq(log, 1, i - 1)) = 0
              \/ /\ log[i + 1] = "udev_settle failed"
                 /\ \/ i + 1 = Len(log)
                    \/ /\ log[i + 2] = "fdasd -a"
                       /\ Runs("fdasd --config", SubSeq(log, 1, i - 1)) = 0
    /\ log # <<>> =>
          /\ log[Len(log)] \in {"dasdfmt", "fdasd -a"} => pc = "failed"
          /\ log[Len(log)] = "fdasd --config" =>
                pc \in {"try_format_write", "try_format_wait", "default_format",
                        "failed"}
    /\ CopyBegun => log[Len(log)] = "udev_settle"

\* fdasd --config exited non-zero in the first try_format, and fdasd -a ran
\* right after it
C13_Witness ==
    /\ pc = "try_format"
    /\ attempt = 2
    /\ child = "waited"
    /\ Len(log) > 3
    /\ SubSeq(log, Len(log) - 2, Len(log))
          = <<"fdasd --config", "fdasd -a", "udev_settle">>

\* C14: every child spawned by try_format has been waited on by the time
\* try_format returns, on every return path: the child is running only while
\* try_format is between its spawn and its return.
C14_AsStated ==
    child = "running" => pc \in {"try_format_write", "try_format_wait"}

-----------------------------------------------------------------------------
(* Properties of the copy, continued *)

\* image_copy_s390x has returned after it created the BufWriter
CopyExited == pc \in {"failed", "done"} /\ idx >= 1

\* C15: the BufWriter of image_copy_s390x is flushed on every exit path of
\* the copy, the error paths included: no path returns while bytes it
\* accepted have neither been written to the destination nor had their
\* flush attempted. The return writes a prefix of what the BufWriter holds;
\* what stays behind is what a failed flush could not write.
C15_FlushOnExit ==
    /\ [](CopyExited => flush_tried)
    /\ [](pc = "done" => buffered = <<>>)
    /\ [][(~CopyExited /\ CopyExited') =>
            \E k \in 0 .. Len(buffered) :
                /\ dest' = WriteAt(dest, dest_pos, SubSeq(buffered, 1, k))
                /\ buffered' = SubSeq(buffered, k + 1, Len(buffered))]_vars

\* the plan-consistency error at the second range: the byte of the first
\* range, which the BufWriter still held, was written on the way out
C15_Witness ==
    /\ result = BailError
    /\ idx = 2
    /\ ranges[1].length = 1
    /\ Copied(1)
    /\ buffered = <<>>
    /\ flush_tried

\* the errors the copy loop returns
LoopErrors ==
    {BailError, "sinking input data", "seeking output", "copying partition"}

\* one step at the end of the copy: the drain follows the last range, the
\* flush follows the drain, Ok follows the flush
CloseStep ==
    /\ (pc' = "close_out" /\ pc # pc') =>
          (pc = "for_range" /\ idx > Len(ranges) /\ result' = "none")
    /\ (pc' = "flush" /\ pc # pc') =>
          /\ pc = "close_out"
          /\ source_pos' = source_len
          /\ UNCHANGED <<dest, buffered, dest_pos, result>>
    /\ (pc' = "done" /\ pc # pc') =>
          /\ pc = "flush"
          /\ result' = "ok"
          /\ source_pos = source_len
          /\ dest' = WriteAt(dest, dest_pos, buffered)
          /\ buffered' = <<>>
    /\ (pc = "close_out" /\ pc' = "failed") =>
          result' = "reading remainder of stream"
    /\ (pc = "flush" /\ pc' = "failed") =>
          (result' = "flushing data to disk" /\ result' \notin LoopErrors)
    /\ result' = "ok" => pc' = "done"

\* C16: on the success path of image_copy_s390x the source is drained to end
\* of stream after the last range and only then the buffered destination
\* writes are flushed; success is returned only after both; a drain failure
\* returns an error, and a flush failure an error distinct from those of the
\* copy loop.
C16_DrainThenFlush == [][CloseStep]_vars

\* success after a drain that had bytes to read and a flush that had bytes
\* to write
C16_Witness ==
    /\ pc = "done"
    /\ result = "ok"
    /\ Len(ranges) >= 1
    /\ ranges[Len(ranges)].length = 1
    /\ Copied(Len(ranges))
    /\ source_len > ranges[Len(ranges)].in_offset + 1

-----------------------------------------------------------------------------
(* Properties of image_copy_s390x as a whole *)

\* the positions of the stream copy, after make_partitions returned
CopyPcs ==
    {"copy", "for_range", "sinking", "seek", "copying", "close_out", "flush",
     "done"}

\* the errors the stream copy returns
CopyErrors ==
    LoopErrors \cup {"reading remainder of stream", "flushing data to disk"}

\* partition_ranges returned the plan of the table in the image header: its
\* descriptors, and its ranges in an order ascending by in_offset
PlanReturned ==
    LET plan == Plan(gpt, bytes_per_block, blocks_per_track)
        Count(rs, r) == Cardinality({j \in DOMAIN rs : rs[j] = r})
    IN  /\ entries(gpt) # <<>>
        /\ partitions = plan.partitions
        /\ Len(ranges) = Len(plan.ranges)
        /\ \A i \in DOMAIN ranges :
              Count(ranges, ranges[i]) = Count(plan.ranges, ranges[i])
        /\ \A i \in 1 .. Len(ranges) - 1 :
              ranges[i].in_offset <= ranges[i + 1].in_offset

\* make_partitions returned Ok: the last tool run is fdasd --config on the
\* planned partitions, it was waited on and the settle wait followed it
PartitionsMade ==
    /\ Len(partitions) <= MaxPartitions
    /\ config = Join(partitions) \o "\n"
    /\ attempt \in 1 .. 2
    /\ child = "waited"
    /\ Len(log) >= 2
    /\ log[Len(log) - 1] = "fdasd --config"
    /\ log[Len(log)] = "udev_settle"

\* the source is where the caller left it and the destination has seen no
\* seek and no write
Untouched ==
    /\ ~CopyBegun
    /\ buffered = <<>>
    /\ dest_pos = 0
    /\ ~flush_tried

\* one step of image_copy_s390x keeps the order plan, partitions, copy, and
\* the plan partition_ranges returned is the one the later steps work on
OrderStep ==
    /\ (pc' = "make_partitions" /\ pc' # pc) => pc = "partition_ranges"
    /\ (InImageCopy /\ pc # "partition_ranges") =>
          UNCHANGED <<input_vars, plan_vars>>
    /\ (pc' = "copy" /\ pc' # pc) => pc = "try_format_wait"
    /\ (pc' \in CopyPcs \ {"copy"} /\ pc' # pc) => pc \in CopyPcs
    /\ (\/ source_pos' # source_pos
        \/ dest' # dest
        \/ buffered' # buffered
        \/ dest_pos' # dest_pos
        \/ dest_touched' # dest_touched) => pc \in CopyPcs \ {"copy"}

\* C17: image_copy_s390x plans, applies the partitions and copies the stream
\* in that order: the source is read and the destination sought or written
\* only after partition_ranges and then make_partitions returned Ok, and an
\* error of either is returned with the source unread and the destination
\* unwritten.
C17_PlanPartitionCopy ==
    /\ [][OrderStep]_vars
    /\ [](Planned => PlanReturned)
    /\ []((pc \in CopyPcs \/ ~Untouched) => PartitionsMade)
    /\ []((InImageCopy /\ pc \in {"failed", "panicked"}
             /\ result \notin CopyErrors) => Untouched)

\* the copy is under way after make_partitions needed its second try_format
C17_Witness ==
    /\ pc = "for_range"
    /\ idx = 2
    /\ attempt = 2
    /\ Copied(1)
    /\ PartitionsMade

-----------------------------------------------------------------------------
(* Properties of prepare_dasd *)

\* one step of prepare_dasd: the check follows a successful low_level_format,
\* default_format follows a check that reported an invalid label, and an
\* error of either is returned before any fdasd -a
PrepareStep ==
    /\ (pc' = "is_invalid" /\ pc' # pc) =>
          /\ pc = "prepare_dasd"
          /\ result' = "none"
          /\ Runs("fdasd -p", log') = 0
          /\ log'[Len(log')] \in {"lszdev", "udev_settle"}
    /\ (pc = "is_invalid" /\ pc' # pc) =>
          /\ log' = log \o <<"fdasd -p">>
          /\ \/ pc' = "default_format" /\ caller' = "prepare_dasd" /\ label_invalid
             \/ pc' = "image_copy_s390x" /\ ~label_invalid
             \/ pc' = "failed" /\ result' = "fdasd -p failed"
    /\ (pc' = "default_format" /\ pc' # pc /\ ~InImageCopy) =>
          pc = "is_invalid"
    /\ (pc \in {"prepare_dasd", "is_invalid"} /\ pc' = "failed") =>
          Runs("fdasd -a", log') = 0

\* C18: prepare_dasd checks the label only after low_level_format returned
\* Ok; default_format runs exactly when the check reports an invalid label,
\* once, and never when it reports a valid one; an error of
\* low_level_format or of the check is returned without a run of fdasd -a.
C18_PrepareOrder ==
    /\ [][PrepareStep]_vars
    /\ [](~InImageCopy =>
            /\ Runs("fdasd -p", log) <= 1
            /\ Runs("fdasd -a", log) <= 1
            /\ \A i \in DOMAIN log :
                  log[i] = "fdasd -a" => (i > 1 /\ log[i - 1] = "fdasd -p"))
    /\ []((pc = "image_copy_s390x" /\ Runs("fdasd -a", log) = 0) =>
            log[Len(log)] = "fdasd -p")

\* prepare_dasd returned Ok after a low-level format, a check that found the
\* label invalid and one default_format
C18_Witness ==
    /\ pc = "image_copy_s390x"
    /\ log = <<"lszdev", "dasdfmt", "udev_settle", "fdasd -p", "fdasd -a",
               "udev_settle">>
    /\ ~label_invalid

-----------------------------------------------------------------------------
(* Properties of the destination layout *)

\* the i-th range is the one of the k-th used slot visited and lies within
\* the tracks computed for it
WithinTracks(tracks, i, k) ==
    /\ ranges[i].in_offset = VisitedInOffset(k)
    /\ ranges[i].length = Blocks(UsedSlots[k]) * bytes_per_block
    /\ ranges[i].out_offset = tracks[k].start_track * TrackBytes
    /\ tracks[k].start_track <= tracks[k].end_track
    /\ ranges[i].out_offset + ranges[i].length
          <= (tracks[k].end_track + 1) * TrackBytes

\* the destination intervals of two ranges share no byte
OutputDisjoint(r, q) ==
    \/ r.out_offset + r.length <= q.out_offset
    \/ q.out_offset + q.length <= r.out_offset

\* C19: for every plan partition_ranges produces without arithmetic
\* wrap-around (so from entries with startingBlock <= endingBlock), the
\* destination intervals [outOffset, outOffset + length) of the ranges are
\* pairwise disjoint, each lies within the track span computed for its
\* partition, and every outOffset is at least 2 * blocksPerTrack *
\* bytesPerBlock.
C19_DestinationLayout ==
    (Planned /\ NoWrapAround) =>
        LET tracks == PlanTracks
        IN  /\ \A k \in 1 .. Len(UsedSlots) :
                  UsedSlots[k].starting_lba <= UsedSlots[k].ending_lba
            /\ \A i, j \in 1 .. Len(ranges) :
                  i # j => OutputDisjoint(ranges[i], ranges[j])
            /\ \E p \in Perms(Len(ranges)) :
                  \A k \in 1 .. Len(ranges) : WithinTracks(tracks, p[k], k)
            /\ \A i \in 1 .. Len(ranges) :
                  ranges[i].out_offset >= FirstTrack * TrackBytes

\* three partitions visited out of order, one of them ending inside its last
\* track
C19_Witness ==
    /\ Planned
    /\ NoWrapAround
    /\ Len(ranges) = 3
    /\ ~AscendingInOffsets
    /\ \E i \in 1 .. 3 : ranges[i].length % TrackBytes # 0
    /\ \E i \in 1 .. 3 : ranges[i].out_offset > FirstTrack * TrackBytes

-----------------------------------------------------------------------------
(* Properties of the cursor *)

\* the position of the source stream, which the caller left at 1 MiB, where
\* the program stands in the copy loop
CursorTracksSource ==
    /\ pc = "for_range" => (cursor = source_pos /\ cursor >= MiB)
    /\ pc = "sinking" =>
          /\ cursor < ranges[idx].in_offset
          /\ source_pos = ranges[idx].in_offset - n
          /\ source_pos >= cursor
    /\ pc = "seek" =>
          (cursor = ranges[idx].in_offset /\ source_pos = cursor)
    /\ pc = "copying" =>
          /\ cursor = ranges[idx].in_offset
          /\ source_pos = cursor + (ranges[idx].length - n)

\* C20: at every iteration boundary of the copy loop cursor is 1 MiB plus
\* the bytes consumed from the source so far, cursor never decreases, and
\* the bytes of each range are taken from the source from the stream
\* position of the range's inOffset on.
C20_CursorInvariant ==
    /\ []CursorTracksSource
    /\ [][cursor' >= cursor]_vars

\* the third iteration starts after two ranges with a gap between them
C20_Witness ==
    /\ pc = "for_range"
    /\ idx = 3
    /\ ranges[1].length >= 1
    /\ ranges[2].in_offset > ranges[1].in_offset + ranges[1].length
    /\ cursor = ranges[2].in_offset + ranges[2].length
    /\ source_pos = cursor

=============================================================================
